---- MODULE Spec2Model ----
(***************************************************************************)
(* Model of flyer2calendar (src/app.py): the extraction client             *)
(* get_gemini_response, the field normaliser / calendar encoder            *)
(* create_ics_file, the filename slugifier slugify and the per-file loop   *)
(* of the Streamlit script.                                                *)
(*                                                                         *)
(* Text is modelled as a sequence of characters; every character is a      *)
(* TLA+ string.  Four characters are named by their code point: "U+0060"   *)
(* (GRAVE ACCENT, the backtick), "U+0130" (LATIN CAPITAL LETTER I WITH DOT *)
(* ABOVE), "U+0307" (COMBINING DOT ABOVE) and "U+2102" (DOUBLE-STRUCK      *)
(* CAPITAL C).                                                             *)
(***************************************************************************)
EXTENDS Integers, Sequences, FiniteSets, TLC

VARIABLES
    uploaded_files, idx, pc, event_data, out,
    text, slug1, slug2,
    fields, ics,
    J, bare, fenced

vars == <<uploaded_files, idx, pc, event_data, out,
          text, slug1, slug2, fields, ics, J, bare, fenced>>

mainVars == <<uploaded_files, idx, pc, event_data, out>>
slugVars == <<text, slug1, slug2>>
icsVars == <<fields, ics>>
extractVars == <<J, bare, fenced>>

\* Longest string handed to slugify by the slugify harness.
MaxLen == 3
\* Largest number of files in one upload batch.
MaxFiles == 2

----------------------------------------------------------------------------
(* Characters and the Python str / re primitives the program uses.         *)

UpperAZ == <<"A","B","C","D","E","F","G","H","I","J","K","L","M",
             "N","O","P","Q","R","S","T","U","V","W","X","Y","Z">>
LowerAZ == <<"a","b","c","d","e","f","g","h","i","j","k","l","m",
             "n","o","p","q","r","s","t","u","v","w","x","y","z">>
Digits == {"0","1","2","3","4","5","6","7","8","9"}

Range(s) == {s[i] : i \in DOMAIN s}

\* str.isspace / the class \s of a str pattern.
IsSpace(c) == c \in {" ", "\n", "\t", "\r"}

\* The class \w of a str pattern: Unicode alphanumerics and the underscore.
IsWord(c) ==
    \/ c \in Range(UpperAZ) \cup Range(LowerAZ) \cup Digits
    \/ c = "_"
    \/ c \in {"U+0130", "U+2102"}

\* str.lower of one character; U+0130 lowers to two code points and U+2102
\* has no lowercase mapping.
LowerChar(c) ==
    IF c \in Range(UpperAZ)
    THEN <<LowerAZ[CHOOSE i \in DOMAIN UpperAZ : UpperAZ[i] = c]>>
    ELSE IF c = "U+0130" THEN <<"i", "U+0307">>
    ELSE <<c>>

RECURSIVE Lower(_)
Lower(s) == IF s = <<>> THEN <<>> ELSE LowerChar(Head(s)) \o Lower(Tail(s))

RECURSIVE LStrip(_)
LStrip(s) == IF s # <<>> /\ IsSpace(Head(s)) THEN LStrip(Tail(s)) ELSE s

RECURSIVE RStrip(_)
RStrip(s) ==
    IF s # <<>> /\ IsSpace(s[Len(s)]) THEN RStrip(SubSeq(s, 1, Len(s) - 1)) ELSE s

Strip(s) == RStrip(LStrip(s))

\* re.sub(r'[^\w\s-]', '', s)
KeepChar(c) == IsWord(c) \/ IsSpace(c) \/ c = "-"
RemoveOthers(s) == SelectSeq(s, KeepChar)

\* re.sub(r'[-\s]+', '-', s)
IsSep(c) == c = "-" \/ IsSpace(c)

RECURSIVE DropSeps(_)
DropSeps(s) == IF s # <<>> /\ IsSep(Head(s)) THEN DropSeps(Tail(s)) ELSE s

RECURSIVE Collapse(_)
Collapse(s) ==
    IF s = <<>> THEN <<>>
    ELSE IF IsSep(Head(s)) THEN <<"-">> \o Collapse(DropSeps(s))
    ELSE <<Head(s)>> \o Collapse(Tail(s))

slugify(s) == Collapse(Lower(Strip(RemoveOthers(s))))

----------------------------------------------------------------------------
(* Harness for slugify: the input is any string of at most MaxLen          *)
(* characters over SlugAlphabet.                                           *)

SlugAlphabet == {"a", "A", "1", "_", "-", " ", "!", "U+0130", "U+0307", "U+2102"}

Strings(A, n) == UNION {[1..k -> A] : k \in 0..n}

Pending == <<"pending">>

SlugInit ==
    /\ text \in Strings(SlugAlphabet, MaxLen)
    /\ slug1 = Pending
    /\ slug2 = Pending

SlugOnce ==
    /\ slug1 = Pending
    /\ slug1' = slugify(text)
    /\ UNCHANGED <<text, slug2>>
    /\ UNCHANGED <<mainVars, icsVars, extractVars>>

SlugTwice ==
    /\ slug1 # Pending
    /\ slug2 = Pending
    /\ slug2' = slugify(slug1)
    /\ UNCHANGED <<text, slug1>>
    /\ UNCHANGED <<mainVars, icsVars, extractVars>>

----------------------------------------------------------------------------
(* Python values as produced by json.loads.  Every value is a record with  *)
(* the same fields: t the type, s the characters of a str or of a number   *)
(* literal, m the mapping of a dict (keys are strings) and a the elements  *)
(* of a list.  json null is Python None, which is also what                *)
(* get_gemini_response returns on failure.                                 *)

EmptyMap == [k \in {} |-> <<>>]

None == [t |-> "None", s |-> <<>>, m |-> EmptyMap, a |-> <<>>]
PyStr(s) == [t |-> "str", s |-> s, m |-> EmptyMap, a |-> <<>>]
PyInt(s) == [t |-> "int", s |-> s, m |-> EmptyMap, a |-> <<>>]
PyDict(m) == [t |-> "dict", s |-> <<>>, m |-> m, a |-> <<>>]
PyList(a) == [t |-> "list", s |-> <<>>, m |-> EmptyMap, a |-> a]

\* bool(v), as used by `if event_data:`.
Truthy(v) ==
    CASE v.t = "None" -> FALSE
      [] v.t = "str" -> v.s # <<>>
      [] v.t = "int" -> v.s # <<"0">>
      [] v.t = "dict" -> DOMAIN v.m # {}
      [] v.t = "list" -> v.a # <<>>

\* d[k] = v on a dict's mapping.
SetItem(m, k, v) == [x \in DOMAIN m \cup {k} |-> IF x = k THEN v ELSE m[x]]

\* d.get(k, default)
DictGet(m, k, default) == IF k \in DOMAIN m THEN m[k] ELSE default

----------------------------------------------------------------------------
(* json.loads: a recursive-descent parser of the JSON grammar over the     *)
(* characters the model draws (objects, arrays, strings without escapes,   *)
(* non-negative integers, null).  A control character inside a string is   *)
(* rejected, as json.loads does in its default strict mode.                *)

ParseError == [ok |-> FALSE, v |-> None, p |-> 0]
Parsed(v, p) == [ok |-> TRUE, v |-> v, p |-> p]

IsJsonWs(c) == c \in {" ", "\n", "\t", "\r"}
IsControl(c) == c \in {"\n", "\t", "\r"}

At(t, p) == IF p \in 1..Len(t) THEN t[p] ELSE "EOF"

RECURSIVE SkipWs(_, _)
SkipWs(t, p) == IF IsJsonWs(At(t, p)) THEN SkipWs(t, p + 1) ELSE p

\* t[p] is the opening quote.
ParseString(t, p) ==
    LET closing == {q \in (p + 1)..Len(t) : t[q] = "\""}
    IN  IF closing = {} THEN ParseError
        ELSE LET q == CHOOSE x \in closing : \A y \in closing : x <= y
                 body == SubSeq(t, p + 1, q - 1)
             IN  IF \E i \in DOMAIN body : IsControl(body[i])
                 THEN ParseError
                 ELSE Parsed(PyStr(body), q + 1)

RECURSIVE DigitsEnd(_, _)
DigitsEnd(t, p) == IF At(t, p) \in Digits THEN DigitsEnd(t, p + 1) ELSE p

\* t[p] is a digit; a leading zero ends the number.
ParseNumber(t, p) ==
    LET q == IF t[p] = "0" THEN p + 1 ELSE DigitsEnd(t, p)
    IN  Parsed(PyInt(SubSeq(t, p, q - 1)), q)

RECURSIVE ParseValue(_, _), ParseMembers(_, _, _), ParseElements(_, _, _)

ParseValue(t, p) ==
    LET c == At(t, p)
    IN  CASE c = "{" ->
                LET q == SkipWs(t, p + 1)
                IN  IF At(t, q) = "}" THEN Parsed(PyDict(EmptyMap), q + 1)
                    ELSE ParseMembers(t, q, EmptyMap)
          [] c = "[" ->
                LET q == SkipWs(t, p + 1)
                IN  IF At(t, q) = "]" THEN Parsed(PyList(<<>>), q + 1)
                    ELSE ParseElements(t, q, <<>>)
          [] c = "\"" -> ParseString(t, p)
          [] c \in Digits -> ParseNumber(t, p)
          [] c = "n" ->
                IF p + 3 <= Len(t) /\ SubSeq(t, p, p + 3) = <<"n","u","l","l">>
                THEN Parsed(None, p + 4)
                ELSE ParseError
          [] OTHER -> ParseError

\* p is where a member's key must start; acc holds the members read so far.
ParseMembers(t, p, acc) ==
    IF At(t, p) # "\"" THEN ParseError
    ELSE LET k == ParseString(t, p)
         IN  IF ~k.ok THEN ParseError
             ELSE LET colon == SkipWs(t, k.p)
                  IN  IF At(t, colon) # ":" THEN ParseError
                      ELSE LET v == ParseValue(t, SkipWs(t, colon + 1))
                           IN  IF ~v.ok THEN ParseError
                               ELSE LET next == SkipWs(t, v.p)
                                        acc2 == SetItem(acc, k.v.s, v.v)
                                    IN  CASE At(t, next) = "}" -> Parsed(PyDict(acc2), next + 1)
                                          [] At(t, next) = "," ->
                                                ParseMembers(t, SkipWs(t, next + 1), acc2)
                                          [] OTHER -> ParseError

ParseElements(t, p, acc) ==
    LET v == ParseValue(t, p)
    IN  IF ~v.ok THEN ParseError
        ELSE LET next == SkipWs(t, v.p)
                 acc2 == Append(acc, v.v)
             IN  CASE At(t, next) = "]" -> Parsed(PyList(acc2), next + 1)
                   [] At(t, next) = "," -> ParseElements(t, SkipWs(t, next + 1), acc2)
                   [] OTHER -> ParseError

\* json.loads(t): ok is FALSE where json.loads raises JSONDecodeError.
json_loads(t) ==
    LET v == ParseValue(t, SkipWs(t, 1))
    IN  IF v.ok /\ SkipWs(t, v.p) = Len(t) + 1 THEN v ELSE ParseError

----------------------------------------------------------------------------
\* re.search of the fenced-block pattern of get_gemini_response with re.DOTALL:
\* three backticks, json, newline, a group that starts with an opening brace,
\* continues lazily and ends with a closing brace, newline, three backticks.
\* The match is the leftmost start at which the pattern matches and, from it,
\* the shortest group.

\* The backtick, U+0060 GRAVE ACCENT.
Backtick == "U+0060"

FenceOpen == <<Backtick, Backtick, Backtick, "j", "s", "o", "n", "\n">>
FenceClose == <<"\n", Backtick, Backtick, Backtick>>

HasAt(t, p, w) == p >= 1 /\ p + Len(w) - 1 <= Len(t) /\ SubSeq(t, p, p + Len(w) - 1) = w

\* The positions of a "}" that can end the group of a match starting at i.
GroupEnds(t, i) ==
    {j \in (i + Len(FenceOpen) + 1)..Len(t) : t[j] = "}" /\ HasAt(t, j + 1, FenceClose)}

MatchStarts(t) ==
    {i \in 1..Len(t) :
        /\ HasAt(t, i, FenceOpen \o <<"{">>)
        /\ GroupEnds(t, i) # {}}

Min(S) == CHOOSE x \in S : \A y \in S : x <= y

\* The pattern with the braces outside the group.
re_search_json_inner(t) ==
    IF MatchStarts(t) = {} THEN [found |-> FALSE, group |-> <<>>]
    ELSE LET i == Min(MatchStarts(t))
             j == Min(GroupEnds(t, i))
         IN  [found |-> TRUE, group |-> SubSeq(t, i + Len(FenceOpen) + 1, j - 1)]

\* found is FALSE where re.search returns None; group is group(1).
re_search_json(t) ==
    IF MatchStarts(t) = {} THEN [found |-> FALSE, group |-> <<>>]
    ELSE LET i == Min(MatchStarts(t))
             j == Min(GroupEnds(t, i))
         IN  [found |-> TRUE, group |-> SubSeq(t, i + Len(FenceOpen), j)]

----------------------------------------------------------------------------
(* String literals of the program.                                         *)

K_title == <<"t","i","t","l","e">>
K_start_time == <<"s","t","a","r","t","_","t","i","m","e">>
K_end_time == <<"e","n","d","_","t","i","m","e">>
K_location == <<"l","o","c","a","t","i","o","n">>
K_description == <<"d","e","s","c","r","i","p","t","i","o","n">>

UntitledEvent == <<"U","n","t","i","t","l","e","d"," ","E","v","e","n","t">>
NotSpecified == <<"N","o","t"," ","s","p","e","c","i","f","i","e","d">>
NoDescription == <<"N","o"," ","d","e","s","c","r","i","p","t","i","o","n"," ","p","r","o","v","i","d","e","d",".">>
DefaultFileTitle == <<"e","v","e","n","t">>
IcsSuffix == <<".","i","c","s">>

----------------------------------------------------------------------------
(* get_gemini_response.  Its argument g is what the remote model does for  *)
(* this image: g.call is the outcome of model.generate_content ("ok" or    *)
(* the class of the exception it raises), g.textread the outcome of        *)
(* reading response.text, g.text the response text.                        *)
(* The result: ret the returned value, raised the exception that leaves    *)
(* the function ("none" when it returns), err the st.error it showed and   *)
(* raw the response text it displayed with st.code.                        *)

NoRaw == <<"nothing displayed">>

\* A handler that lets the parse error of a readable response escape.
OnValueError_uncaught(g) ==
    [ret |-> None, raised |-> "JSONDecodeError", err |-> "none", raw |-> NoRaw]

\* except (json.JSONDecodeError, ValueError): st.error, st.text, then
\* st.code(response.text), which reads the local `response` and its text again.
OnValueError(g) ==
    IF g.call # "ok"
    THEN [ret |-> None, raised |-> "UnboundLocalError", err |-> "parse", raw |-> NoRaw]
    ELSE IF g.textread # "ok"
    THEN [ret |-> None, raised |-> g.textread, err |-> "parse", raw |-> NoRaw]
    ELSE [ret |-> None, raised |-> "none", err |-> "parse", raw |-> g.text]

\* except Exception: st.error, return None.
OnException(g) == [ret |-> None, raised |-> "none", err |-> "api", raw |-> NoRaw]

get_gemini_response(g) ==
    IF g.call # "ok"
    THEN IF g.call = "ValueError" THEN OnValueError(g) ELSE OnException(g)
    ELSE IF g.textread # "ok"
    THEN IF g.textread = "ValueError" THEN OnValueError(g) ELSE OnException(g)
    ELSE LET found == re_search_json(g.text)
             r == IF found.found THEN json_loads(found.group) ELSE json_loads(g.text)
         IN  IF r.ok
             THEN [ret |-> r.v, raised |-> "none", err |-> "none", raw |-> NoRaw]
             ELSE OnValueError(g)

----------------------------------------------------------------------------
(* create_ics_file.                                                        *)

Iso1900 == <<"2","0","2","4","-","0","8","-","1","5","T","1","9",":","0","0",":","0","0">>
Iso2100 == <<"2","0","2","4","-","0","8","-","1","5","T","2","1",":","0","0",":","0","0">>

\* dateutil.parser.parse: a str that holds a date parses to a datetime, any
\* other str raises ParserError (a ValueError), a value that is not a str
\* raises TypeError.  A datetime is written as a TLA+ string.
date_parser(v) ==
    CASE v.t # "str" -> [raised |-> "TypeError", dt |-> "none"]
      [] v.s = Iso1900 -> [raised |-> "none", dt |-> "2024-08-15 19:00:00"]
      [] v.s = Iso2100 -> [raised |-> "none", dt |-> "2024-08-15 21:00:00"]
      [] OTHER -> [raised |-> "ValueError", dt |-> "none"]

\* event_data[k] followed by date_parser.
ParseField(m, k) ==
    IF k \in DOMAIN m THEN date_parser(m[k]) ELSE [raised |-> "KeyError", dt |-> "none"]

\* The body of the try statement: the exception it raises, if any.
TryDates(m) ==
    LET b == ParseField(m, K_start_time)
        e == ParseField(m, K_end_time)
    IN  IF b.raised # "none" THEN [raised |-> b.raised, begin |-> "none", end |-> "none"]
        ELSE IF e.raised # "none" THEN [raised |-> e.raised, begin |-> b.dt, end |-> "none"]
        ELSE [raised |-> "none", begin |-> b.dt, end |-> e.dt]

\* The handler `except (ValueError, KeyError) as e` rebinds e, the name of the
\* Event, to the exception and unbinds it when the handler ends, so that
\* c.events.add(e) raises UnboundLocalError after the warning is shown.
AfterDateError(name, location, description) ==
    [raised |-> "UnboundLocalError", warning |-> TRUE, calendar |-> <<>>]

\* The result: raised the exception that leaves the function ("none" when
\* it returns), warning whether st.warning was shown, calendar the events of
\* the returned calendar document.
create_ics_file(m) ==
    LET name == DictGet(m, K_title, PyStr(UntitledEvent))
        location == DictGet(m, K_location, PyStr(NotSpecified))
        description == DictGet(m, K_description, PyStr(NoDescription))
        d == TryDates(m)
    IN  CASE d.raised = "none" ->
                [raised |-> "none", warning |-> FALSE,
                 calendar |-> <<[name |-> name, location |-> location,
                                 description |-> description,
                                 begin |-> d.begin, end |-> d.end]>>]
          [] d.raised \in {"ValueError", "KeyError"} ->
                AfterDateError(name, location, description)
          [] OTHER ->
                [raised |-> d.raised, warning |-> FALSE, calendar |-> <<>>]

----------------------------------------------------------------------------
(* Inputs: response texts are built character by character.                *)

Gala == <<"G","a","l","a">>
JazzNight == <<"J","a","z","z"," ","N","i","g","h","t">>
HallA == <<"H","a","l","l"," ","A">>
Fundraiser == <<"F","u","n","d","r","a","i","s","e","r">>
Soon == <<"s","o","o","n">>
Sorry == <<"S","o","r","r","y",","," ","I"," ","c","a","n","n","o","t"," ","r","e","a","d"," ","t","h","i","s"," ","f","l","y","e","r",".">>
NullText == <<"n","u","l","l">>

Quoted(s) == <<"\"">> \o s \o <<"\"">>

\* A member is a pair <<key, text of the value>>.
RECURSIVE MembersText(_, _)
MembersText(members, ws) ==
    IF members = <<>> THEN <<>>
    ELSE Quoted(Head(members)[1]) \o <<":">> \o ws \o Head(members)[2]
         \o (IF Tail(members) = <<>> THEN <<>>
             ELSE <<",">> \o ws \o MembersText(Tail(members), ws))

\* The text of a JSON object, with the whitespace ws between its tokens.
ObjectText(members, ws) == <<"{">> \o ws \o MembersText(members, ws) \o ws \o <<"}">>

\* The text inside a fenced code block labelled json.
Fence(t) == FenceOpen \o t \o FenceClose

GalaMembers ==
    << <<K_title, Quoted(Gala)>>, <<K_start_time, Quoted(Iso1900)>>,
       <<K_end_time, Quoted(Iso2100)>>, <<K_location, Quoted(HallA)>>,
       <<K_description, Quoted(Fundraiser)>> >>

TimesMembers == << <<K_start_time, Quoted(Iso1900)>>, <<K_end_time, Quoted(Iso2100)>> >>

\* What the remote model does when it answers with the text t.
Answers(t) == [call |-> "ok", textread |-> "ok", text |-> t]

----------------------------------------------------------------------------
(* Harness for get_gemini_response on a JSON object J, answered bare and   *)
(* inside a fenced block.                                                  *)

MemberLists ==
    { <<>>,
      GalaMembers,
      TimesMembers,
      << <<K_title, Quoted(Gala)>> >>,
      << <<K_title, Quoted(<<"}">>)>> >>,
      << <<K_title, Quoted(<<"{", "}", " ", "}">>)>> >>,
      << <<K_title, NullText>> >>,
      << <<K_title, <<"7">>>> >>,
      << <<K_title, Quoted(Gala)>>, <<K_title, Quoted(JazzNight)>> >>,
      << <<K_location, ObjectText(<< <<K_title, Quoted(Gala)>> >>, <<"\n">>)>> >>,
      << <<K_location, <<"{", "}">>>>, <<K_description, Quoted(<<>>)>> >>,
      << <<<<Backtick, Backtick, Backtick, "j", "s", "o", "n", "{">>, <<"{", "}">>>>,
         <<<<Backtick, Backtick, Backtick>>, <<"1">>>> >>,
      << <<K_description, Quoted(<<Backtick, Backtick, Backtick, "j", "s", "o", "n">>)>> >>,
      << <<K_description, <<"[", "1", ",", "{", "}", "]">>>> >> }

Whitespace == {<<>>, <<" ">>, <<"\n">>}

JsonObjectTexts == {ObjectText(ms, ws) : ms \in MemberLists, ws \in Whitespace}

PendingResponse == [ret |-> None, raised |-> "pending", err |-> "pending", raw |-> NoRaw]

ExtractInit ==
    /\ J \in JsonObjectTexts
    /\ bare = PendingResponse
    /\ fenced = PendingResponse

ExtractBare ==
    /\ bare = PendingResponse
    /\ bare' = get_gemini_response(Answers(J))
    /\ UNCHANGED <<J, fenced>>
    /\ UNCHANGED <<mainVars, slugVars, icsVars>>

ExtractFenced ==
    /\ fenced = PendingResponse
    /\ fenced' = get_gemini_response(Answers(Fence(J)))
    /\ UNCHANGED <<J, bare>>
    /\ UNCHANGED <<mainVars, slugVars, icsVars>>

----------------------------------------------------------------------------
(* Harness for create_ics_file on any ExtractedFields.                     *)

Absent == [t |-> "absent", s |-> <<>>, m |-> EmptyMap, a |-> <<>>]

TitleChoices == {Absent, PyStr(<<>>), PyStr(Gala), None}
LocationChoices == {Absent, PyStr(<<>>), PyStr(HallA)}
DescriptionChoices == {Absent, PyStr(<<>>), PyStr(Fundraiser)}
StartChoices == {Absent, PyStr(Iso1900), PyStr(Soon), None}
EndChoices == {Absent, PyStr(Iso2100), PyStr(Soon), PyStr(<<>>)}

FieldKeys == {K_title, K_start_time, K_end_time, K_location, K_description}

\* The dict holding the keys whose value is not Absent.
MkFields(title, start, end, location, description) ==
    LET val(k) == CASE k = K_title -> title
                    [] k = K_start_time -> start
                    [] k = K_end_time -> end
                    [] k = K_location -> location
                    [] k = K_description -> description
    IN  [k \in {x \in FieldKeys : val(x) # Absent} |-> val(k)]

PendingIcs == [raised |-> "pending", warning |-> FALSE, calendar |-> <<>>]

IcsInit ==
    /\ fields \in {MkFields(t, s, e, l, d) :
                      t \in TitleChoices, s \in StartChoices, e \in EndChoices,
                      l \in LocationChoices, d \in DescriptionChoices}
    /\ ics = PendingIcs

CreateIcs ==
    /\ ics = PendingIcs
    /\ ics' = create_ics_file(fields)
    /\ UNCHANGED fields
    /\ UNCHANGED <<mainVars, slugVars, extractVars>>

----------------------------------------------------------------------------
(* The script's per-file loop.  An uploaded file is described by its       *)
(* declared type, by whether it decodes to an image, and by what the       *)
(* remote model does for its image.                                        *)

Upload(type, decode, g) == [type |-> type, decode |-> decode, model |-> g]

Raises(class) == [call |-> class, textread |-> "ok", text |-> <<>>]
Unreadable(class) == [call |-> "ok", textread |-> class, text |-> <<>>]

ResponseTexts ==
    { Fence(ObjectText(GalaMembers, <<>>)),
      ObjectText(<< <<K_title, Quoted(JazzNight)>> >> \o TimesMembers, <<" ">>),
      ObjectText(TimesMembers, <<>>),
      ObjectText(<< <<K_title, Quoted(Gala)>> >>, <<>>),
      ObjectText(<< <<K_title, Quoted(Gala)>>, <<K_start_time, Quoted(Soon)>>,
                    <<K_end_time, Quoted(Iso2100)>> >>, <<>>),
      ObjectText(<< <<K_title, NullText>> >> \o TimesMembers, <<>>),
      ObjectText(<< <<K_title, Quoted(<<>>)>>, <<K_location, Quoted(<<>>)>>,
                    <<K_description, Quoted(<<>>)>> >> \o TimesMembers, <<>>),
      <<"{", "}">>,
      <<"[", "1", "]">>,
      Sorry,
      Fence(<<"{">> \o Sorry \o <<"}">>) }

FileInputs ==
    {Upload("image/png", "ok", Answers(t)) : t \in ResponseTexts}
    \cup {Upload("application/pdf", "ok", Answers(Fence(ObjectText(GalaMembers, <<>>))))}
    \cup {Upload(ty, "fail", Answers(<<>>)) : ty \in {"image/png", "application/pdf"}}
    \cup {Upload("image/png", "ok", Raises(c)) : c \in {"ValueError", "Exception"}}
    \cup {Upload("image/png", "ok", Unreadable(c)) : c \in {"ValueError", "Exception"}}

\* What the page shows for one file.  opened: "pending", "ok" or "failed"
\* (the st.error of a failed decode); extracted: get_gemini_response was
\* called; data: the value it returned; err, raw: the error and raw text it
\* showed; success: st.success was shown; warning: st.warning was shown;
\* ics_err: "Could not generate .ics file" was shown; no_details: "Could not
\* extract details for this file." was shown; download: the download
\* buttons; uncaught: the exception that left the loop body; finished: the
\* iteration ended (st.divider or continue).
Blank ==
    [opened |-> "pending", extracted |-> FALSE, data |-> None, err |-> "none",
     raw |-> NoRaw, success |-> FALSE, warning |-> FALSE, ics_err |-> FALSE,
     no_details |-> FALSE, download |-> <<>>, uncaught |-> "none", finished |-> FALSE]

Init ==
    /\ uploaded_files \in UNION {[1..n -> FileInputs] : n \in 0..MaxFiles}
    /\ idx = 1
    /\ pc = IF uploaded_files = <<>> THEN "done" ELSE "open"
    /\ event_data = None
    /\ out = [i \in DOMAIN uploaded_files |-> Blank]
    /\ text = <<>> /\ slug1 = Pending /\ slug2 = Pending
    /\ fields = EmptyMap /\ ics = PendingIcs
    /\ J = <<>> /\ bare = PendingResponse /\ fenced = PendingResponse

\* The position after iteration i of `for uploaded_file in uploaded_files`.
AfterFile(i) == IF i < Len(uploaded_files) THEN "open" ELSE "done"

\* Lines 136-163: decode the upload into images_to_process, or report the
\* failure and continue with the next file.
OpenFile ==
    /\ pc = "open"
    /\ IF uploaded_files[idx].decode = "ok"
       THEN /\ out' = [out EXCEPT ![idx].opened = "ok"]
            /\ pc' = "extract"
            /\ idx' = idx
       ELSE /\ out' = [out EXCEPT ![idx].opened = "failed", ![idx].finished = TRUE]
            /\ pc' = AfterFile(idx)
            /\ idx' = idx + 1
    /\ UNCHANGED <<uploaded_files, event_data>>
    /\ UNCHANGED <<slugVars, icsVars, extractVars>>

\* Lines 167-168: event_data = get_gemini_response(image); the call is not
\* inside a try statement, so an exception that leaves it ends the script run.
Extract ==
    /\ pc = "extract"
    /\ LET r == get_gemini_response(uploaded_files[idx].model)
       IN  /\ event_data' = IF r.raised = "none" THEN r.ret ELSE event_data
           /\ out' = [out EXCEPT ![idx].extracted = TRUE,
                                 ![idx].data = r.ret,
                                 ![idx].err = r.err,
                                 ![idx].raw = r.raw,
                                 ![idx].uncaught = r.raised]
           /\ pc' = IF r.raised = "none" THEN "present" ELSE "crashed"
    /\ UNCHANGED <<uploaded_files, idx>>
    /\ UNCHANGED <<slugVars, icsVars, extractVars>>

\* The file name taken from the title as it is, without slugify.
FileName_raw(m) ==
    LET title == DictGet(m, K_title, PyStr(DefaultFileTitle))
    IN  IF title.t = "str"
        THEN [raised |-> "none", name |-> title.s \o IcsSuffix]
        ELSE [raised |-> "TypeError", name |-> <<>>]

\* file_name = f"{slugify(event_data.get('title', 'event'))}.ics"; re.sub
\* raises TypeError when the title is not a str.
FileName(m) ==
    LET title == DictGet(m, K_title, PyStr(DefaultFileTitle))
    IN  IF title.t = "str"
        THEN [raised |-> "none", name |-> slugify(title.s) \o IcsSuffix]
        ELSE [raised |-> "TypeError", name |-> <<>>]

\* Lines 189-201: the try statement around create_ics_file, slugify and
\* st.download_button.
GenerateDownload(m) ==
    LET c == create_ics_file(m)
        f == FileName(m)
    IN  IF c.raised = "none" /\ f.raised = "none"
        THEN [warning |-> c.warning, ics_err |-> FALSE,
              download |-> <<[file_name |-> f.name, data |-> c.calendar,
                              mime |-> "text/calendar"]>>]
        ELSE [warning |-> c.warning, ics_err |-> TRUE, download |-> <<>>]

\* Lines 170-206: show the extracted details and the download button, or
\* "Could not extract details for this file.".  event_data.get at line 177
\* is outside every try statement and raises AttributeError when event_data
\* is not a dict.
Present ==
    /\ pc = "present"
    /\ IF Truthy(event_data)
       THEN IF event_data.t = "dict"
            THEN LET g == GenerateDownload(event_data.m)
                 IN  /\ out' = [out EXCEPT ![idx].success = TRUE,
                                           ![idx].warning = g.warning,
                                           ![idx].ics_err = g.ics_err,
                                           ![idx].download = g.download,
                                           ![idx].finished = TRUE]
                     /\ pc' = AfterFile(idx)
                     /\ idx' = idx + 1
            ELSE /\ out' = [out EXCEPT ![idx].success = TRUE,
                                       ![idx].uncaught = "AttributeError"]
                 /\ pc' = "crashed"
                 /\ idx' = idx
       ELSE /\ out' = [out EXCEPT ![idx].no_details = TRUE, ![idx].finished = TRUE]
            /\ pc' = AfterFile(idx)
            /\ idx' = idx + 1
    /\ UNCHANGED <<uploaded_files, event_data>>
    /\ UNCHANGED <<slugVars, icsVars, extractVars>>

Next == OpenFile \/ Extract \/ Present

Spec == Init /\ [][Next]_vars

----------------------------------------------------------------------------
(* The specifications of the harnesses.                                    *)

MainIdle ==
    /\ uploaded_files = <<>> /\ idx = 1 /\ pc = "done"
    /\ event_data = None /\ out = <<>>

SlugSpecInit ==
    /\ SlugInit
    /\ MainIdle
    /\ fields = EmptyMap /\ ics = PendingIcs
    /\ J = <<>> /\ bare = PendingResponse /\ fenced = PendingResponse

SlugNext == SlugOnce \/ SlugTwice

SlugSpec == SlugSpecInit /\ [][SlugNext]_vars

IcsSpecInit ==
    /\ IcsInit
    /\ MainIdle
    /\ text = <<>> /\ slug1 = Pending /\ slug2 = Pending
    /\ J = <<>> /\ bare = PendingResponse /\ fenced = PendingResponse

IcsNext == CreateIcs

IcsSpec == IcsSpecInit /\ [][IcsNext]_vars

ExtractSpecInit ==
    /\ ExtractInit
    /\ MainIdle
    /\ text = <<>> /\ slug1 = Pending /\ slug2 = Pending
    /\ fields = EmptyMap /\ ics = PendingIcs

ExtractNext == ExtractBare \/ ExtractFenced

ExtractSpec == ExtractSpecInit /\ [][ExtractNext]_vars

----------------------------------------------------------------------------
(* Properties.                                                             *)

Crashed == pc = "crashed"

\* The remote call, or reading its response text, failed for this upload.
CallFailed(f) == f.model.call # "ok" \/ f.model.textread # "ok"

\* C1: batch isolation.  A failure while processing one file is caught and
\* reported for that file only: no exception ever leaves the body of the
\* per-file loop, so the loop never stops before the last file.
C1_BatchIsolation ==
    /\ ~Crashed
    /\ \A i \in DOMAIN out : out[i].uncaught = "none"

\* A str value that date_parser cannot parse, or a missing key.
BadDate(m, k) == k \notin DOMAIN m \/ (m[k].t = "str" /\ date_parser(m[k]).raised = "ValueError")

Now == "datetime.now()"

\* C2: date fallback.  When start_time or end_time is missing or
\* unparseable, create_ics_file returns (raises nothing), shows a warning,
\* and the returned calendar has one event whose begin and end are both the
\* current time.
C2_DateFallback ==
    (ics # PendingIcs /\ (BadDate(fields, K_start_time) \/ BadDate(fields, K_end_time)))
        => /\ ics.raised = "none"
           /\ ics.warning
           /\ Len(ics.calendar) = 1
           /\ ics.calendar[1].begin = Now
           /\ ics.calendar[1].end = Now

\* fields.k or default: the value when the key is present and not empty.
OrDefault(m, k, default) ==
    IF k \in DOMAIN m /\ Truthy(m[k]) THEN m[k] ELSE PyStr(default)

\* C3: string defaults.  The event's title, location and description are the
\* extracted value when the key is present with a non-empty value, and
\* "Untitled Event", "Not specified", "No description provided." otherwise.
C3_StringDefaults ==
    \A i \in DOMAIN ics.calendar :
        /\ ics.calendar[i].name = OrDefault(fields, K_title, UntitledEvent)
        /\ ics.calendar[i].location = OrDefault(fields, K_location, NotSpecified)
        /\ ics.calendar[i].description = OrDefault(fields, K_description, NoDescription)

Succeeded(r) == r.raised = "none" /\ r.err = "none" /\ r.ret.t = "dict"

\* C4: fenced/bare equivalence.  For a JSON object J, the response that is J
\* inside a fenced json block and the response that is J alone both make
\* get_gemini_response return a dict without reporting an error, and the two
\* dicts are equal.
C4_FencedBareEquivalence ==
    /\ bare # PendingResponse => Succeeded(bare)
    /\ fenced # PendingResponse => Succeeded(fenced)
    /\ (bare # PendingResponse /\ fenced # PendingResponse) => bare.ret = fenced.ret

\* Both responses were extracted for an object that has members, a nested
\* object and line breaks between its tokens.
C4_Witness ==
    /\ bare # PendingResponse /\ fenced # PendingResponse
    /\ bare.ret = fenced.ret
    /\ K_location \in DOMAIN bare.ret.m
    /\ bare.ret.m[K_location].t = "dict"
    /\ \E p \in DOMAIN J : J[p] = "\n"

\* The response has no fenced json block and its whole text is not JSON.
NotJson(f) ==
    /\ ~CallFailed(f)
    /\ ~re_search_json(f.model.text).found
    /\ ~json_loads(f.model.text).ok

\* C5: parse failure handling.  For a response with no fenced json block
\* whose text is not JSON: a parse error is reported with the raw response
\* text, get_gemini_response returns None without raising, no download is
\* offered for that file, the file is reported as not extracted, and the
\* loop moves on to the next file.
C5_ParseFailure ==
    \A i \in DOMAIN out :
        (NotJson(uploaded_files[i]) /\ out[i].extracted) =>
            /\ out[i].err = "parse"
            /\ out[i].raw = uploaded_files[i].model.text
            /\ out[i].data = None
            /\ out[i].uncaught = "none"
            /\ out[i].download = <<>>
            /\ ~out[i].success
            /\ ~(Crashed /\ idx = i)
            /\ (idx = i => pc = "present")
            /\ (idx > i => out[i].finished /\ out[i].no_details)
            /\ (out[i].finished /\ i < Len(uploaded_files)) =>
                    (idx = i + 1 /\ pc = "open") \/ out[i + 1].opened # "pending"

\* A file whose response was not JSON has been dealt with and the file after
\* it has been opened.
C5_Witness ==
    \E i \in DOMAIN out :
        /\ NotJson(uploaded_files[i])
        /\ out[i].finished /\ out[i].no_details
        /\ out[i].raw = Sorry
        /\ i < Len(uploaded_files)
        /\ out[i + 1].opened = "ok"

\* C6: model call failure handling.  Whenever the remote call, or reading
\* its response text, raises (whatever the exception class),
\* get_gemini_response reports an error and returns None without raising, so
\* the script run goes on.
C6_CallFailureHandled ==
    \A i \in DOMAIN out :
        (CallFailed(uploaded_files[i]) /\ out[i].extracted) =>
            /\ out[i].uncaught = "none"
            /\ out[i].err # "none"
            /\ out[i].data = None
            /\ ~(Crashed /\ idx = i)

\* C7: slugify is idempotent, slugify(slugify(x)) = slugify(x).
C7_SlugifyIdempotent == slug2 # Pending => slug2 = slug1

\* C8: the result of slugify holds only lowercase alphanumerics and single
\* hyphens: no whitespace, no other punctuation, no uppercase character.
C8_SlugAlphabet ==
    slug1 # Pending =>
        /\ \A p \in DOMAIN slug1 : slug1[p] \in Range(LowerAZ) \cup Digits \cup {"-"}
        /\ \A p \in 1..(Len(slug1) - 1) : ~(slug1[p] = "-" /\ slug1[p + 1] = "-")

\* The title of the event encoded in a download (the VEVENT summary).
Summary(d) == d.data[1].name

\* C9: for every file for which a download is offered, the file name is
\* slugify(T) followed by ".ics", T being the title of the event in the file,
\* also when the extracted title is absent and T is the default title.
C9_OutputNaming ==
    \A i \in DOMAIN out : \A k \in DOMAIN out[i].download :
        LET d == out[i].download[k]
        IN  d.file_name = slugify(Summary(d).s) \o IcsSuffix

\* C9 as amended: the file name is slugify(T) followed by ".ics" when the
\* extracted fields hold a title, which is then T; when the title key is
\* absent, T is "Untitled Event" and the file name is "event.ics".
C9_OutputNamingAmended ==
    \A i \in DOMAIN out : \A k \in DOMAIN out[i].download :
        LET d == out[i].download[k]
            m == out[i].data.m
        IN  /\ Len(d.data) = 1
            /\ Summary(d).t = "str"
            /\ K_title \in DOMAIN m =>
                    /\ Summary(d) = m[K_title]
                    /\ d.file_name = slugify(Summary(d).s) \o IcsSuffix
            /\ K_title \notin DOMAIN m =>
                    /\ Summary(d).s = UntitledEvent
                    /\ d.file_name = slugify(DefaultFileTitle) \o IcsSuffix
                    /\ d.file_name = <<"e", "v", "e", "n", "t", ".", "i", "c", "s">>

\* One batch in which a download was named after a title that slugify
\* changes and another was named without a title.
C9_Witness ==
    \E i, j \in DOMAIN out :
        /\ out[i].download # <<>> /\ out[j].download # <<>>
        /\ Summary(out[i].download[1]).s = JazzNight
        /\ out[i].download[1].file_name # JazzNight \o IcsSuffix
        /\ K_title \notin DOMAIN out[j].data.m

\* C10: every response that parses to a JSON object, whichever of the five
\* keys it holds, is shown as a successful extraction and goes on to
\* create_ics_file; "Could not extract details for this file." is shown only
\* when the model call or the JSON parse failed.
C10_ObjectIsSuccess ==
    \A i \in DOMAIN out :
        (out[i].extracted /\ out[i].finished) =>
            /\ (out[i].err = "none" /\ out[i].data.t = "dict") =>
                    out[i].success /\ ~out[i].no_details
            /\ out[i].no_details => out[i].err # "none"

====
